---- MODULE Spec2Model ----
(***************************************************************************)
(* A model of redux-api-middleware (src/lib/middleware.js): the            *)
(* apiMiddleware stage and the helpers getJSON, normalizeTypeDescriptors   *)
(* and actionWith.  One invocation of the stage is followed from its       *)
(* entry to its completion; every function supplied by the caller          *)
(* (bailout, endpoint, headers, options, payload, meta), the transport     *)
(* and the JSON decoder are environment: what they return or throw is      *)
(* chosen when they are invoked.                                           *)
(***************************************************************************)
EXTENDS Integers, Sequences, FiniteSets, TLC

VARIABLES
    action,       \* the incoming request; its descriptor objects are mutable
    received,     \* history: the request as it was when first received
    pc,           \* position of the invocation in callee$2$0
    forwarded,    \* the arguments next() was called with, in order
    calls,        \* the functions invoked so far, in order, with their outcome
    endpoint,     \* local: endpoint after resolution
    headers,      \* local: headers after resolution
    options,      \* local: options after resolution
    requestType,  \* local: normalized request descriptor
    successType,  \* local: normalized success descriptor
    failureType,  \* local: normalized failure descriptor
    res           \* local: the response the transport resolved with

vars == <<action, received, pc, forwarded, calls, endpoint, headers, options,
          requestType, successType, failureType, res>>

----------------------------------------------------------------------------
(* Bounds *)

\* number of distinct messages an Error thrown by the environment can carry
MaxMsg == 2

----------------------------------------------------------------------------
(* JavaScript values *)

Undefined == [k |-> "undefined"]
Null == [k |-> "null"]
\* a property that the object does not have
Absent == [k |-> "absent"]
Str(s) == [k |-> "string", v |-> s]
Bool(b) == [k |-> "boolean", b |-> b]
Num(n) == [k |-> "number", n |-> n]
\* a function supplied by the caller, or one of the two default resolvers
Fn(name) == [k |-> "function", name |-> name]
\* a plain mapping (headers, options, a decoded body, a resolved payload)
Obj(name) == [k |-> "plain", name |-> name]

Msg(i) == "boom" \o ToString(i)

\* what a function of the environment can throw (or reject with)
Thrown ==
    {[k |-> "Error", message |-> Str(Msg(i))] : i \in 1..MaxMsg}
        \cup {Str("thrown string"), Null}

\* e.message: reading a property of null or undefined is a TypeError
CanRead(e) == e.k \notin {"null", "undefined"}
MessageOf(e) == IF e.k = "Error" THEN e.message ELSE Undefined

Return(v) == [o |-> "return", v |-> v]
Throw(e) == [o |-> "throw", v |-> e]

\* typeof x === 'function'
IsFunction(x) == x.k = "function"
\* typeof x === 'string' || typeof x === 'symbol'
IsIdentifier(x) == x.k = "string"
\* the property read o.p of a value that may lack it
Get(o, p) == IF p \in DOMAIN o /\ o[p] # Absent THEN o[p] ELSE Undefined
\* ToBoolean
Truthy(x) ==
    CASE x.k \in {"undefined", "null", "absent"} -> FALSE
      [] x.k = "boolean" -> x.b
      [] x.k = "string" -> x.v # ""
      [] x.k = "number" -> x.n # 0
      [] x.k = "chars" -> x.s # <<>>
      [] OTHER -> TRUE

----------------------------------------------------------------------------
(* Error values (errors.js) *)

InvalidRSAA(validationErrors) ==
    [k |-> "InvalidRSAA", validationErrors |-> validationErrors]
RequestError(message) == [k |-> "RequestError", message |-> message]
InternalError(message) == [k |-> "InternalError", message |-> message]
ApiError(status, statusText, response) ==
    [k |-> "ApiError", status |-> status, statusText |-> statusText,
     response |-> response]

----------------------------------------------------------------------------
(* getJSON *)

\* a string as the sequence of its characters
Chars(s) == [k |-> "chars", s |-> s]

\* String.prototype.indexOf / Array.prototype.indexOf on sequences
IndexOfSub(s, pat) ==
    LET hits == {i \in 1..(Len(s) - Len(pat) + 1) :
                    SubSeq(s, i, i + Len(pat) - 1) = pat}
    IN IF hits = {} THEN -1
       ELSE (CHOOSE i \in hits : \A j \in hits : i <= j) - 1
IndexOfElem(s, x) ==
    LET hits == {i \in 1..Len(s) : s[i] = x}
    IN IF hits = {} THEN -1
       ELSE (CHOOSE i \in hits : \A j \in hits : i <= j) - 1
\* the bitwise complement ~n
BitNot(n) == -n - 1

emptyCodes == <<204, 205>>

\* getJSON without the test of the status against emptyCodes
getJSONAnyStatus(r, jsonOut) ==
    LET contentType == r.contentType
        decode == /\ Truthy(contentType)
                  /\ BitNot(IndexOfSub(contentType.s, <<"j", "s", "o", "n">>)) # 0
    IN IF decode
       THEN [out |-> jsonOut, calls |-> <<[fn |-> "res.json", out |-> jsonOut]>>]
       ELSE [out |-> Return(Undefined), calls |-> <<>>]
\* jsonOut is what res.json() does if it is invoked
getJSON(r, jsonOut) ==
    LET contentType == r.contentType
        decode == /\ BitNot(IndexOfElem(emptyCodes, r.status)) = 0
                  /\ Truthy(contentType)
                  /\ BitNot(IndexOfSub(contentType.s, <<"j", "s", "o", "n">>)) # 0
    IN IF decode
       THEN [out |-> jsonOut, calls |-> <<[fn |-> "res.json", out |-> jsonOut]>>]
       ELSE [out |-> Return(Undefined), calls |-> <<>>]

----------------------------------------------------------------------------
(* normalizeTypeDescriptors *)

Descriptor(type, payload, meta) ==
    [k |-> "object", type |-> type, payload |-> payload, meta |-> meta,
     error |-> Absent]

\* { ...t, payload: <default> }: the default wins over the fields of t
WithDefaultPayloadLast(default, t) ==
    [t EXCEPT !.payload = default]
\* { payload: <default>, ...t }: the fields of t win over the default
WithDefaultPayload(default, t) ==
    IF t.payload = Absent THEN [t EXCEPT !.payload = default] ELSE t

normalizeTypeDescriptors(types) ==
    LET r == IF IsIdentifier(types[1])
             THEN Descriptor(types[1], Absent, Absent) ELSE types[1]
        s == IF IsIdentifier(types[2])
             THEN Descriptor(types[2], Absent, Absent) ELSE types[2]
        f == IF IsIdentifier(types[3])
             THEN Descriptor(types[3], Absent, Absent) ELSE types[3]
    IN <<r,
         WithDefaultPayload(Fn("defaultSuccessPayload"), s),
         WithDefaultPayload(Fn("defaultFailurePayload"), f)>>

----------------------------------------------------------------------------
(* actionWith *)

\* The call fn(...args) followed by the await of its result.  userOut is
\* what a caller-supplied function does, jsonOut what the decoder does.
Invoke(fn, r, userOut, jsonOut) ==
    CASE fn.name = "defaultSuccessPayload" -> getJSON(r, jsonOut)
      [] fn.name = "defaultFailurePayload" ->
            LET j == getJSON(r, jsonOut)
            IN IF j.out.o = "return"
               THEN [out |-> Return(ApiError(r.status, r.statusText, j.out.v)),
                     calls |-> j.calls]
               ELSE j
      [] OTHER -> [out |-> userOut,
                   calls |-> <<[fn |-> fn.name, out |-> userOut]>>]

\* await (typeof x === 'function' ? x(...args) : x)
Resolve(x, r, userOut, jsonOut) ==
    IF IsFunction(x) THEN Invoke(x, r, userOut, jsonOut)
    ELSE [out |-> Return(IF x = Absent THEN Undefined ELSE x), calls |-> <<>>]

\* The result is the promise's settlement together with the descriptor
\* object as actionWith leaves it (it is assigned to in place).
actionWith(descriptor, r, payloadOut, metaOut, jsonOut) ==
    LET p == Resolve(descriptor.payload, r, payloadOut, jsonOut)
        d1 == IF p.out.o = "return"
              THEN [descriptor EXCEPT !.payload = p.out.v]
              ELSE [descriptor EXCEPT !.payload = InternalError(MessageOf(p.out.v)),
                                      !.error = Bool(TRUE)]
        m == Resolve(d1.meta, r, metaOut, jsonOut)
        d2 == IF m.out.o = "return"
              THEN [d1 EXCEPT !.meta = m.out.v]
              ELSE [d1 EXCEPT !.meta = Absent,
                              !.payload = InternalError(MessageOf(m.out.v)),
                              !.error = Bool(TRUE)]
    IN CASE p.out.o = "throw" /\ ~CanRead(p.out.v) ->
                [settled |-> "rejected", descriptor |-> descriptor,
                 calls |-> p.calls]
         [] (p.out.o = "return" \/ CanRead(p.out.v))
                /\ m.out.o = "throw" /\ ~CanRead(m.out.v) ->
                [settled |-> "rejected",
                 descriptor |-> [d1 EXCEPT !.meta = Absent],
                 calls |-> p.calls \o m.calls]
         [] OTHER ->
                [settled |-> "resolved", descriptor |-> d2,
                 calls |-> p.calls \o m.calls]

----------------------------------------------------------------------------
(* validation.js: isRSAA and validateRSAA *)

\* the request carries the call descriptor
isRSAA(a) == "CALL_API" \in DOMAIN a

IsArray(x) == x.k = "array"
Array(items) == [k |-> "array", items |-> items]

isValidTypeDescriptor(t) ==
    \/ IsIdentifier(t)
    \/ t.k = "object" /\ IsIdentifier(t.type)

\* the list of violations; empty when the request is valid
validateRSAA(a) ==
    LET callAPI == a.CALL_API
        types == callAPI.types
        endpointErrors ==
            IF callAPI.endpoint = Absent
            THEN <<"[CALL_API] must have an endpoint property">>
            ELSE IF ~(callAPI.endpoint.k \in {"string", "function"})
            THEN <<"[CALL_API].endpoint property must be a string or a function">>
            ELSE <<>>
        typesErrors ==
            IF types = Absent
            THEN <<"[CALL_API] must have a types property">>
            ELSE IF ~IsArray(types) \/ Len(types.items) # 3
            THEN <<"[CALL_API].types property must be an array of length 3">>
            ELSE SelectSeq(<<"Invalid request type", "Invalid success type",
                             "Invalid failure type">>,
                           LAMBDA m :
                              \E i \in 1..3 :
                                 /\ m = <<"Invalid request type",
                                          "Invalid success type",
                                          "Invalid failure type">>[i]
                                 /\ ~isValidTypeDescriptor(types.items[i]))
    IN endpointErrors \o typesErrors

----------------------------------------------------------------------------
(* The requests and the environment *)

RequestSlots ==
    {Str("REQUEST"),
     Descriptor(Str("REQUEST"), Obj("requestPayload"), Absent),
     Descriptor(Str("REQUEST"), Fn("request.payload"), Absent),
     Descriptor(Str("REQUEST"), Absent, Fn("request.meta")),
     Descriptor(Str("REQUEST"), Fn("request.payload"), Fn("request.meta"))}
\* the success and the failure slot of a request, of the same form
ResponseSlots ==
    {<<Str("SUCCESS"), Str("FAILURE")>>,
     <<Descriptor(Str("SUCCESS"), Obj("successPayload"), Absent),
       Descriptor(Str("FAILURE"), Obj("failurePayload"), Absent)>>,
     <<Descriptor(Str("SUCCESS"), Absent, Fn("success.meta")),
       Descriptor(Str("FAILURE"), Absent, Fn("failure.meta"))>>,
     <<Descriptor(Str("SUCCESS"), Fn("success.payload"), Fn("success.meta")),
       Descriptor(Str("FAILURE"), Fn("failure.payload"), Fn("failure.meta"))>>}

ValidTypes ==
    {Array(<<r, sf[1], sf[2]>>) : r \in RequestSlots, sf \in ResponseSlots}

CallDescriptor(e, h, o, b, t) ==
    [endpoint |-> e, method |-> Str("GET"), body |-> Absent,
     credentials |-> Absent, headers |-> h, options |-> o, bailout |-> b,
     types |-> t]

ValidRSAAs ==
    {[CALL_API |-> CallDescriptor(e, h, o, b, t)] :
        e \in {Str("/api"), Fn("endpoint")},
        h \in {Obj("headers"), Fn("headers")},
        o \in {Absent, Fn("options")},
        b \in {Absent, Bool(TRUE), Bool(FALSE), Fn("bailout")},
        t \in ValidTypes}

\* types values of requests that fail validation
InvalidTypes ==
    {Absent, Str("REQUEST"), Array(<<>>), Array(<<Str("REQUEST")>>),
     Array(<<Descriptor(Str("REQUEST"), Absent, Absent), Str("SUCCESS")>>),
     Array(<<Num(42), Str("SUCCESS"), Str("FAILURE")>>),
     Array(<<Undefined, Str("SUCCESS"), Str("FAILURE")>>),
     Array(<<Descriptor(Absent, Absent, Absent), Str("SUCCESS"),
             Str("FAILURE")>>),
     Array(<<Str("REQUEST"), Num(42), Str("FAILURE")>>),
     Array(<<Descriptor(Str("REQUEST"), Fn("request.payload"),
                        Fn("request.meta")),
             Str("SUCCESS"), Undefined>>)}

InvalidRSAAs ==
    {[CALL_API |-> CallDescriptor(Str("/api"), Obj("headers"), Absent,
                                  Absent, t)] : t \in InvalidTypes}
    \cup
    {[CALL_API |-> CallDescriptor(Absent, Obj("headers"), Absent, Absent, t)] :
        t \in {Array(<<Str("REQUEST"), Str("SUCCESS"), Str("FAILURE")>>),
               Array(<<>>)}}

PlainActions ==
    {[type |-> Str("OTHER"), payload |-> Undefined],
     [type |-> Str("REQUEST"), payload |-> Obj("data")]}

Actions == PlainActions \cup InvalidRSAAs \cup ValidRSAAs

\* what invoking a caller-supplied function can do
ResultOf(name) == Obj("result of " \o name)
UserOutcomes(name) == {Return(ResultOf(name))} \cup {Throw(e) : e \in Thrown}
BailoutOutcomes ==
    {Return(Bool(TRUE)), Return(Bool(FALSE))} \cup {Throw(e) : e \in Thrown}
JsonOutcomes == {Return(Obj("body"))} \cup {Throw(e) : e \in Thrown}
\* the outcomes to consider for the value x of a payload or meta property
OutcomesFor(x) ==
    IF IsFunction(x)
          /\ x.name \notin {"defaultSuccessPayload", "defaultFailurePayload"}
    THEN UserOutcomes(x.name) ELSE {Return(Undefined)}
\* the decoder's outcomes, when the payload property x can reach it
JsonOutcomesFor(x) ==
    IF IsFunction(x)
          /\ x.name \in {"defaultSuccessPayload", "defaultFailurePayload"}
    THEN JsonOutcomes ELSE {Return(Undefined)}

StatusLines ==
    {<<TRUE, 200, "OK">>, <<TRUE, 204, "No Content">>,
     <<TRUE, 205, "Reset Content">>, <<FALSE, 404, "Not Found">>}
ContentTypes ==
    {Null, Chars(<<"a", "/", "j", "s", "o", "n">>),
     Chars(<<"t", "e", "x", "t">>)}
Responses ==
    {[k |-> "response", ok |-> l[1], status |-> l[2], statusText |-> l[3],
      contentType |-> c] : l \in StatusLines, c \in ContentTypes}

----------------------------------------------------------------------------
(* apiMiddleware *)

Init ==
    /\ action \in Actions
    /\ received = action
    /\ pc = "start"
    /\ forwarded = <<>>
    /\ calls = <<>>
    /\ endpoint = Undefined
    /\ headers = Undefined
    /\ options = Undefined
    /\ requestType = Undefined
    /\ successType = Undefined
    /\ failureType = Undefined
    /\ res = Undefined

PassThroughDropped ==
    /\ pc = "start"
    /\ ~isRSAA(action)
    /\ pc' = "done"
    /\ UNCHANGED <<action, received, forwarded, calls, endpoint, headers,
                   options, requestType, successType, failureType, res>>

\* case 0: actions without a [CALL_API] property are passed on
PassThrough ==
    /\ pc = "start"
    /\ ~isRSAA(action)
    /\ forwarded' = Append(forwarded, action)
    /\ pc' = "done"
    /\ UNCHANGED <<action, received, calls, endpoint, headers, options, requestType,
                   successType, failureType, res>>

\* case 2: try to dispatch an error request FSA for an invalid RSAA
ValidationFailure ==
    /\ pc = "start"
    /\ isRSAA(action)
    /\ validateRSAA(action) # <<>>
    /\ LET validationErrors == validateRSAA(action)
           callAPI == action.CALL_API
           first == IF callAPI.types.items = <<>> THEN Undefined
                    ELSE callAPI.types.items[1]
           type == IF Truthy(first) /\ Truthy(Get(first, "type"))
                   THEN first.type ELSE first
       IN IF Truthy(callAPI.types) /\ IsArray(callAPI.types)
          THEN forwarded' =
                   Append(forwarded,
                          [k |-> "object", type |-> type,
                           payload |-> InvalidRSAA(validationErrors),
                           meta |-> Absent, error |-> Bool(TRUE)])
          ELSE forwarded' = forwarded
    /\ pc' = "done"
    /\ UNCHANGED <<action, received, calls, endpoint, headers, options, requestType,
                   successType, failureType, res>>

\* case 7: parse the validated RSAA
Parse ==
    /\ pc = "start"
    /\ isRSAA(action)
    /\ validateRSAA(action) = <<>>
    /\ LET callAPI == action.CALL_API
           n == normalizeTypeDescriptors(callAPI.types.items)
       IN /\ endpoint' = callAPI.endpoint
          /\ headers' = Get(callAPI, "headers")
          /\ options' = IF Get(callAPI, "options") = Undefined
                        THEN Obj("{}") ELSE callAPI.options
          /\ requestType' = n[1]
          /\ successType' = n[2]
          /\ failureType' = n[3]
    /\ pc' = "bailout"
    /\ UNCHANGED <<action, received, forwarded, calls, res>>

\* _extends({}, requestType, { payload: new RequestError(message), error: true })
ErrorDescriptor(message) ==
    [requestType EXCEPT !.payload = RequestError(message),
                        !.error = Bool(TRUE)]

\* return next(await actionWith(descriptor, args)), after the invocations in
\* made; a rejection of actionWith is not caught and rejects the stage
ForwardAndStop(made, aw) ==
    /\ calls' = calls \o made \o aw.calls
    /\ IF aw.settled = "resolved"
       THEN /\ forwarded' = Append(forwarded, aw.descriptor)
            /\ pc' = "done"
       ELSE /\ forwarded' = forwarded
            /\ pc' = "rejected"

\* if (<bailout is true or returned b>) return; else go on with the endpoint
AfterBailoutNoReturn(b) == "endpoint"
AfterBailout(b) == IF Truthy(b) THEN "done" ELSE "endpoint"

\* cases 21-30: should we bail out?
Bailout ==
    /\ pc = "bailout"
    /\ LET bailout == Get(action.CALL_API, "bailout")
       IN IF bailout.k = "boolean"
          THEN /\ pc' = AfterBailout(bailout)
               /\ UNCHANGED <<forwarded, calls>>
          ELSE IF IsFunction(bailout)
          THEN \E out \in BailoutOutcomes :
                  LET made == <<[fn |-> "bailout", out |-> out]>>
                  IN IF out.o = "return"
                     THEN /\ pc' = AfterBailout(out.v)
                          /\ calls' = calls \o made
                          /\ forwarded' = forwarded
                     ELSE \E mOut \in OutcomesFor(requestType.meta) :
                             ForwardAndStop(made,
                                actionWith(ErrorDescriptor(
                                    Str("[CALL_API].bailout function failed")),
                                    Undefined, Return(Undefined), mOut,
                                    Return(Undefined)))
          ELSE /\ pc' = "endpoint"
               /\ UNCHANGED <<forwarded, calls>>
    /\ UNCHANGED <<action, received, endpoint, headers, options, requestType,
                   successType, failureType, res>>

\* cases 32-41: process the [CALL_API].endpoint function
ResolveEndpoint ==
    /\ pc = "endpoint"
    /\ IF IsFunction(endpoint)
       THEN \E out \in UserOutcomes("endpoint") :
               LET made == <<[fn |-> "endpoint", out |-> out]>>
               IN IF out.o = "return"
                  THEN /\ endpoint' = out.v
                       /\ pc' = "headers"
                       /\ calls' = calls \o made
                       /\ forwarded' = forwarded
                  ELSE /\ endpoint' = endpoint
                       /\ \E mOut \in OutcomesFor(requestType.meta) :
                             ForwardAndStop(made,
                                actionWith(ErrorDescriptor(
                                    Str("[CALL_API].endpoint function failed")),
                                    Undefined, Return(Undefined), mOut,
                                    Return(Undefined)))
       ELSE /\ pc' = "headers"
            /\ UNCHANGED <<endpoint, forwarded, calls>>
    /\ UNCHANGED <<action, received, headers, options, requestType, successType,
                   failureType, res>>

\* the headers step without the return after next(): a failure is reported
\* and the options are processed all the same
ResolveHeadersGoesOn ==
    /\ pc = "headers"
    /\ IF IsFunction(headers)
       THEN \E out \in UserOutcomes("headers") :
               LET made == <<[fn |-> "headers", out |-> out]>>
               IN IF out.o = "return"
                  THEN /\ headers' = out.v
                       /\ pc' = "options"
                       /\ calls' = calls \o made
                       /\ forwarded' = forwarded
                  ELSE /\ headers' = headers
                       /\ pc' = "options"
                       /\ calls' = calls \o made
                       /\ forwarded' =
                             Append(forwarded,
                                ErrorDescriptor(
                                    Str("[CALL_API].headers function failed")))
       ELSE /\ pc' = "options"
            /\ UNCHANGED <<headers, forwarded, calls>>
    /\ UNCHANGED <<action, received, endpoint, options, requestType,
                   successType, failureType, res>>

\* cases 43-52: process the [CALL_API].headers function
ResolveHeaders ==
    /\ pc = "headers"
    /\ IF IsFunction(headers)
       THEN \E out \in UserOutcomes("headers") :
               LET made == <<[fn |-> "headers", out |-> out]>>
               IN IF out.o = "return"
                  THEN /\ headers' = out.v
                       /\ pc' = "options"
                       /\ calls' = calls \o made
                       /\ forwarded' = forwarded
                  ELSE /\ headers' = headers
                       /\ \E mOut \in OutcomesFor(requestType.meta) :
                             ForwardAndStop(made,
                                actionWith(ErrorDescriptor(
                                    Str("[CALL_API].headers function failed")),
                                    Undefined, Return(Undefined), mOut,
                                    Return(Undefined)))
       ELSE /\ pc' = "options"
            /\ UNCHANGED <<headers, forwarded, calls>>
    /\ UNCHANGED <<action, received, endpoint, options, requestType, successType,
                   failureType, res>>

\* cases 54-63: process the [CALL_API].options function
ResolveOptions ==
    /\ pc = "options"
    /\ IF IsFunction(options)
       THEN \E out \in UserOutcomes("options") :
               LET made == <<[fn |-> "options", out |-> out]>>
               IN IF out.o = "return"
                  THEN /\ options' = out.v
                       /\ pc' = "request"
                       /\ calls' = calls \o made
                       /\ forwarded' = forwarded
                  ELSE /\ options' = options
                       /\ \E mOut \in OutcomesFor(requestType.meta) :
                             ForwardAndStop(made,
                                actionWith(ErrorDescriptor(
                                    Str("[CALL_API].options function failed")),
                                    Undefined, Return(Undefined), mOut,
                                    Return(Undefined)))
       ELSE /\ pc' = "request"
            /\ UNCHANGED <<options, forwarded, calls>>
    /\ UNCHANGED <<action, received, endpoint, headers, requestType, successType,
                   failureType, res>>

\* types[0] of the request is the very object requestType refers to
RequestTypeIsShared == action.CALL_API.types.items[1].k = "object"

\* cases 65-67: we can now dispatch the request FSA
DispatchRequest ==
    /\ pc = "request"
    /\ \E pOut \in OutcomesFor(requestType.payload),
          mOut \in OutcomesFor(requestType.meta) :
          LET aw == actionWith(requestType, Undefined, pOut, mOut,
                               Return(Undefined))
          IN /\ requestType' = aw.descriptor
             /\ action' = IF RequestTypeIsShared
                          THEN [action EXCEPT
                                  !.CALL_API.types.items[1] = aw.descriptor]
                          ELSE action
             /\ calls' = calls \o aw.calls
             /\ IF aw.settled = "resolved"
                THEN /\ forwarded' = Append(forwarded, aw.descriptor)
                     /\ pc' = "fetch"
                ELSE /\ forwarded' = forwarded
                     /\ pc' = "rejected"
    /\ UNCHANGED <<received, endpoint, headers, options, successType,
                   failureType, res>>

\* case 69: make the API call
FetchCall ==
    /\ pc = "fetch"
    /\ calls' = Append(calls,
                   [fn |-> "fetch",
                    out |-> [o |-> "pending",
                             v |-> [endpoint |-> endpoint,
                                    options |-> options,
                                    method |-> Get(action.CALL_API, "method"),
                                    body |-> Get(action.CALL_API, "body"),
                                    credentials |->
                                        Get(action.CALL_API, "credentials"),
                                    headers |-> headers]]])
    /\ pc' = "awaitFetch"
    /\ UNCHANGED <<action, received, forwarded, endpoint, headers, options, requestType,
                   successType, failureType, res>>

\* the response arrives but the invocation is not resumed with it
FetchResolvedLost ==
    /\ pc = "awaitFetch"
    /\ \E r \in Responses :
          /\ res' = r
          /\ calls' = Append(calls, [fn |-> "fetch settled", out |-> Return(r)])
    /\ pc' = "suspended"
    /\ UNCHANGED <<action, received, forwarded, endpoint, headers, options,
                   requestType, successType, failureType>>

\* case 72: the transport resolved with a response
FetchResolved ==
    /\ pc = "awaitFetch"
    /\ \E r \in Responses :
          /\ res' = r
          /\ calls' = Append(calls, [fn |-> "fetch settled", out |-> Return(r)])
    /\ pc' = "response"
    /\ UNCHANGED <<action, received, forwarded, endpoint, headers, options, requestType,
                   successType, failureType>>

\* cases 75-79: the request was malformed, or there was a network error
FetchFailed ==
    /\ pc = "awaitFetch"
    /\ \E e \in Thrown :
          LET made == <<[fn |-> "fetch settled", out |-> Throw(e)]>>
          IN IF CanRead(e)
             THEN \E mOut \in OutcomesFor(requestType.meta) :
                     ForwardAndStop(made,
                        actionWith(ErrorDescriptor(MessageOf(e)), Undefined,
                                   Return(Undefined), mOut, Return(Undefined)))
             ELSE /\ calls' = calls \o made
                  /\ forwarded' = forwarded
                  /\ pc' = "rejected"
    /\ UNCHANGED <<action, received, endpoint, headers, options, requestType,
                   successType, failureType, res>>

\* the descriptor resolved for the response r: successType if r.ok, else
\* _extends({}, failureType, { error: true })
ResponseDescriptorSwapped(r) ==
    IF ~r.ok THEN successType ELSE [failureType EXCEPT !.error = Bool(TRUE)]
ResponseDescriptorUnforced(r) ==
    IF r.ok THEN successType ELSE failureType
ResponseDescriptor(r) ==
    IF r.ok THEN successType ELSE [failureType EXCEPT !.error = Bool(TRUE)]

\* the response step without the return in the ok branch: the success
\* notification is forwarded and the failure branch runs as well
ProcessResponseFallsThrough ==
    /\ pc = "response"
    /\ LET descriptor == ResponseDescriptor(res)
       IN \E pOut \in OutcomesFor(descriptor.payload),
             mOut \in OutcomesFor(descriptor.meta),
             jsonOut \in JsonOutcomesFor(descriptor.payload) :
             LET aw == actionWith(descriptor, res, pOut, mOut, jsonOut)
             IN /\ calls' = calls \o aw.calls
                /\ pc' = IF aw.settled = "resolved" THEN "done" ELSE "rejected"
                /\ forwarded' =
                      IF aw.settled # "resolved" THEN forwarded
                      ELSE IF res.ok
                      THEN forwarded \o
                             <<aw.descriptor,
                               [failureType EXCEPT !.error = Bool(TRUE)]>>
                      ELSE Append(forwarded, aw.descriptor)
                /\ successType' = IF res.ok THEN aw.descriptor ELSE successType
    /\ UNCHANGED <<action, received, endpoint, headers, options, requestType,
                   failureType, res>>

\* cases 81-90: process the server response
ProcessResponse ==
    /\ pc = "response"
    /\ LET descriptor == ResponseDescriptor(res)
       IN \E pOut \in OutcomesFor(descriptor.payload),
             mOut \in OutcomesFor(descriptor.meta),
             jsonOut \in JsonOutcomesFor(descriptor.payload) :
             LET aw == actionWith(descriptor, res, pOut, mOut, jsonOut)
             IN /\ ForwardAndStop(<<>>, aw)
                /\ successType' = IF res.ok THEN aw.descriptor ELSE successType
    /\ UNCHANGED <<action, received, endpoint, headers, options, requestType,
                   failureType, res>>

Next ==
    \/ PassThrough
    \/ ValidationFailure
    \/ Parse
    \/ Bailout
    \/ ResolveEndpoint
    \/ ResolveHeaders
    \/ ResolveOptions
    \/ DispatchRequest
    \/ FetchCall
    \/ FetchResolved
    \/ FetchFailed
    \/ ProcessResponse

Spec == Init /\ [][Next]_vars

\* the invocation has come to its end: it returned, or it rejected
Finished == pc \in {"done", "rejected"}

\* Every function the stage invokes and awaits, the transport included,
\* eventually returns or throws: no step that is possible is put off forever.
FairSpec == Spec /\ WF_vars(Next)

\* The caller dispatches the same request object once more after the stage
\* has returned: a new invocation of callee$2$0 with fresh locals.
Redispatch ==
    /\ pc = "done"
    /\ pc' = "start"
    /\ forwarded' = <<>>
    /\ calls' = <<>>
    /\ endpoint' = Undefined
    /\ headers' = Undefined
    /\ options' = Undefined
    /\ requestType' = Undefined
    /\ successType' = Undefined
    /\ failureType' = Undefined
    /\ res' = Undefined
    /\ UNCHANGED <<action, received>>

\* requests with static fields, for the invocations that follow one another
StaticActions ==
    PlainActions \cup InvalidRSAAs \cup
    {[CALL_API |-> CallDescriptor(Str("/api"), Obj("headers"), Absent,
                                  b, t)] :
        b \in {Absent, Fn("bailout")}, t \in ValidTypes}

InitAgain == Init /\ action \in StaticActions

NextAgain == Next \/ Redispatch

SpecAgain == InitAgain /\ [][NextAgain]_vars

----------------------------------------------------------------------------
(* Vocabulary of the properties *)

\* the request is an API-call request that passes validation
Valid == isRSAA(received) /\ validateRSAA(received) = <<>>
\* the identifier a slot of the types triple stands for
IdOf(t) == IF IsIdentifier(t) THEN t ELSE t.type
ReqId == IdOf(received.CALL_API.types.items[1])
SuccId == IdOf(received.CALL_API.types.items[2])
FailId == IdOf(received.CALL_API.types.items[3])
\* the positions in calls at which the function name was invoked
CallsOf(name) == {i \in DOMAIN calls : calls[i].fn = name}
Invoked(name) == CallsOf(name) # {}
Threw(name) == \E i \in CallsOf(name) : calls[i].out.o = "throw"
FieldFunctions == {"bailout", "endpoint", "headers", "options"}
ResolverFunctions ==
    {"request.payload", "request.meta", "success.payload", "success.meta",
     "failure.payload", "failure.meta"}

----------------------------------------------------------------------------
(* Properties *)

\* C1: a request without the call descriptor is forwarded to the next stage
\* unchanged, exactly once; nothing else is forwarded, and no later step,
\* no function of the request and no transport call is ever made for it.
C1_PassThrough ==
    ~isRSAA(received) =>
        /\ action = received
        /\ pc \in {"start", "done"}
        /\ forwarded = IF pc = "done" THEN <<received>> ELSE <<>>
        /\ calls = <<>>
        /\ requestType = Undefined /\ res = Undefined

C1_Witness ==
    /\ ~isRSAA(received)
    /\ pc = "done"
    /\ forwarded = <<received>>

\* C8: a valid request whose bailout is the boolean true, or a function that
\* returns true, forwards nothing, and neither a field function, a resolver
\* nor the transport is invoked for it.
C8_Bailout ==
    /\ (Valid /\ Get(received.CALL_API, "bailout") = Bool(TRUE)) =>
            /\ forwarded = <<>>
            /\ calls = <<>>
            /\ pc \in {"start", "bailout", "done"}
    /\ (\E i \in CallsOf("bailout") : calls[i].out = Return(Bool(TRUE))) =>
            /\ forwarded = <<>>
            /\ calls = <<[fn |-> "bailout", out |-> Return(Bool(TRUE))]>>
            /\ pc = "done"

C8_Witness ==
    /\ Valid
    /\ pc = "done"
    /\ calls = <<[fn |-> "bailout", out |-> Return(Bool(TRUE))]>>
    /\ forwarded = <<>>
    /\ IsFunction(received.CALL_API.endpoint)

\* C10: the field functions are invoked in the order bailout, endpoint,
\* headers, options, each at most once, and none is invoked after one of
\* them threw or after the bailout function told to bail out; a bailout of
\* boolean true invokes none of them.
FieldRank(name) ==
    CASE name = "bailout" -> 1 [] name = "endpoint" -> 2
      [] name = "headers" -> 3 [] name = "options" -> 4
C10_FieldOrder ==
    /\ \A i, j \in DOMAIN calls :
          (i < j /\ calls[i].fn \in FieldFunctions
                 /\ calls[j].fn \in FieldFunctions) =>
             /\ FieldRank(calls[i].fn) < FieldRank(calls[j].fn)
             /\ calls[i].out.o = "return"
             /\ ~(calls[i].fn = "bailout" /\ Truthy(calls[i].out.v))
    /\ (Valid /\ Get(received.CALL_API, "bailout") = Bool(TRUE)) =>
          \A name \in FieldFunctions : ~Invoked(name)

C10_Witness ==
    /\ Finished
    /\ Invoked("bailout") /\ Invoked("endpoint")
    /\ Threw("headers")
    /\ IsFunction(received.CALL_API.options)
    /\ ~Invoked("options")

\* a slot of the types triple from which an identifier can be determined:
\* a bare identifier, or a full descriptor with a .type
HasIdentifier(t) == IsIdentifier(t) \/ (t.k = "object" /\ IsIdentifier(t.type))

\* C2: a request that fails validation forwards exactly one notification,
\* of the request type, with error = true and the violations as payload,
\* when the request-type identifier can be determined, and forwards nothing
\* when it cannot; no function and no transport is invoked either way.
C2_ValidationFailure ==
    (isRSAA(received) /\ validateRSAA(received) # <<>> /\ pc = "done") =>
        LET types == received.CALL_API.types
            determinable == /\ Truthy(types) /\ IsArray(types)
                            /\ types.items # <<>>
                            /\ HasIdentifier(types.items[1])
        IN /\ calls = <<>>
           /\ forwarded =
                IF determinable
                THEN <<[k |-> "object", type |-> IdOf(types.items[1]),
                        payload |-> InvalidRSAA(validateRSAA(received)),
                        meta |-> Absent, error |-> Bool(TRUE)]>>
                ELSE <<>>

\* C3: every notification forwarded for an API-call request has the type of
\* one of the identifiers of the request's types triple.
TypeIdsOf(a) ==
    LET types == a.CALL_API.types
    IN IF Truthy(types) /\ IsArray(types)
       THEN {IdOf(types.items[i]) :
                i \in {j \in DOMAIN types.items : HasIdentifier(types.items[j])}}
       ELSE {}
C3_TypesFromTriple ==
    isRSAA(received) =>
        \A i \in DOMAIN forwarded : forwarded[i].type \in TypeIdsOf(received)

\* C4: the invocation never rejects, whatever the functions of the request,
\* the transport and the decoder throw, and a single failure among them
\* leaves exactly one forwarded error notification.
ThrowCount == Cardinality({i \in DOMAIN calls : calls[i].out.o = "throw"})
ErrorCount ==
    Cardinality({i \in DOMAIN forwarded :
                    Get(forwarded[i], "error") = Bool(TRUE)})
C4_NeverRejects ==
    /\ pc # "rejected"
    /\ (pc = "done" /\ ThrowCount = 1 /\ (res = Undefined \/ res.ok)) =>
            ErrorCount = 1

\* C7: when the transport call fails, the request-sent notification is
\* followed by exactly one more notification, of the request type, with
\* error = true and the Request-Error built from the failure's message, and
\* no success-type or failure-type notification is forwarded.
C7_TransportFailure ==
    \A i \in CallsOf("fetch settled") :
        (calls[i].out.o = "throw" /\ Finished) =>
            /\ Len(forwarded) = 2
            /\ forwarded[2].type = ReqId
            /\ forwarded[2].error = Bool(TRUE)
            /\ forwarded[2].payload = RequestError(MessageOf(calls[i].out.v))
            /\ \A j \in DOMAIN forwarded :
                  forwarded[j].type \notin {SuccId, FailId}

\* C9: when the bailout, endpoint, headers or options function throws,
\* the invocation returns with exactly one notification forwarded, of the
\* request type, with error = true and the Request-Error
\* "[CALL_API].X function failed", and the transport is not invoked.
C9_FieldFailure ==
    \A name \in FieldFunctions :
        (Threw(name) /\ pc = "done") =>
            /\ Len(forwarded) = 1
            /\ forwarded[1].type = ReqId
            /\ forwarded[1].error = Bool(TRUE)
            /\ forwarded[1].payload =
                  RequestError(Str("[CALL_API]." \o name \o " function failed"))
            /\ ~Invoked("fetch")

\* the transport resolved with a response
Responded == res # Undefined
\* no invocation of one of the functions in names threw
NoneThrew(names) == \A name \in names : ~Threw(name)
\* the Content-Type of the response names JSON
JsonContentType == res.contentType = Chars(<<"a", "/", "j", "s", "o", "n">>)
\* the body decoded from the response: empty for 204 and 205 and without a
\* JSON Content-Type, else what the decoder returned
ExpectedBody ==
    IF res.status \in {204, 205} \/ ~JsonContentType THEN Undefined
    ELSE IF Invoked("res.json")
    THEN calls[CHOOSE i \in CallsOf("res.json") : TRUE].out.v
    ELSE [k |-> "not decoded"]
\* slot i of the types triple leaves its payload to the default resolver
DefaultPayload(i) ==
    LET t == received.CALL_API.types.items[i]
    IN IsIdentifier(t) \/ t.payload = Absent

C5_TwoNotifications ==
    /\ Len(forwarded) = 2
    /\ forwarded[1].type = ReqId
    /\ forwarded[1].error = Absent
    /\ forwarded[2].type = SuccId
    /\ DefaultPayload(2) => forwarded[2].payload = ExpectedBody
    /\ \A i \in DOMAIN forwarded : forwarded[i].type # FailId

BailedOut ==
    \/ Valid /\ Get(received.CALL_API, "bailout") = Bool(TRUE)
    \/ \E i \in CallsOf("bailout") :
          calls[i].out.o = "return" /\ Truthy(calls[i].out.v)
\* the request passed validation, was not bailed out, its endpoint, headers
\* and options are resolved, and the request descriptor has been resolved
PastRequest ==
    /\ Valid
    /\ ~BailedOut
    /\ NoneThrew(FieldFunctions)
    /\ pc \in {"fetch", "awaitFetch", "response", "done", "rejected"}

\* C11: once a valid request is past bailout and field resolution, the
\* request-sent notification has been forwarded, as the first one and only
\* once, whatever happens afterwards, and the transport is not invoked
\* before or without it.
C11_RequestSent ==
    /\ PastRequest =>
          /\ Len(forwarded) >= 1
          /\ forwarded[1].type = ReqId
          /\ forwarded[1] = requestType
          /\ \A i \in DOMAIN forwarded :
                (i > 1 /\ forwarded[i].type = ReqId) =>
                    (\E j \in CallsOf("fetch settled") :
                        calls[j].out.o = "throw")
    /\ Invoked("fetch") =>
          Len(forwarded) >= 1 /\ forwarded[1].type = ReqId

\* C12: at most two notifications are forwarded for a request; a second one
\* follows the request-sent notification and is exactly one of the transport
\* error (request type, error), the success-type and the failure-type
\* notification, so never both a success-type and a failure-type one.
C12_AtMostTwo ==
    /\ Len(forwarded) <= 2
    /\ Len(forwarded) = 2 =>
          /\ Valid
          /\ Cardinality(CallsOf("fetch")) = 1
          /\ forwarded[1].type = ReqId
          /\ \/ /\ forwarded[2].type = ReqId
                /\ forwarded[2].error = Bool(TRUE)
                /\ \E j \in CallsOf("fetch settled") : calls[j].out.o = "throw"
                /\ ~Responded
             \/ /\ forwarded[2].type = SuccId
                /\ Responded /\ res.ok
             \/ /\ forwarded[2].type = FailId
                /\ Responded /\ ~res.ok
    /\ Len(forwarded) = 2 => pc = "done"

C12_Witness ==
    /\ Len(forwarded) = 2
    /\ forwarded[1].type = Str("REQUEST")
    /\ forwarded[2].type = Str("REQUEST")
    /\ forwarded[2].error = Bool(TRUE)
    /\ forwarded[2].payload.k = "RequestError"

\* C13: when the invocation has ended, the transport has been invoked once
\* if the request passed validation, was not bailed out and its endpoint,
\* headers and options resolved, and not at all otherwise; it is never
\* invoked twice.
C13_TransportOnce ==
    /\ Cardinality(CallsOf("fetch")) <= 1
    /\ Finished =>
          Cardinality(CallsOf("fetch")) =
              IF Valid /\ ~BailedOut /\ NoneThrew(FieldFunctions)
              THEN 1 ELSE 0

\* C14: an invocation does not depend on earlier ones: whenever the request
\* descriptor of a request is resolved, the payload and meta functions the
\* request was made with are invoked, and the request-sent notification
\* carries error = true only if one of them threw in this invocation; and
\* the request object is as the caller made it when an invocation starts.
C14_Independent ==
    LET t == received.CALL_API.types.items[1]
    IN /\ (PastRequest /\ pc # "rejected" /\ t.k = "object") =>
             /\ IsFunction(t.payload) => Invoked("request.payload")
             /\ IsFunction(t.meta) => Invoked("request.meta")
             /\ forwarded[1].error = Bool(TRUE) =>
                   (Threw("request.payload") \/ Threw("request.meta"))
       /\ pc = "start" => action = received

\* C15: when every invoked function and the transport eventually return or
\* throw, every invocation eventually comes to its end, and once it has, no
\* further notification is forwarded.
C15_Terminates ==
    /\ <>Finished
    /\ [][Finished => forwarded' = forwarded]_vars

\* the request-sent notification is out and the transport call is pending
C15_Witness ==
    /\ pc = "awaitFetch"
    /\ Len(forwarded) = 1
    /\ forwarded[1].type = Str("REQUEST")
    /\ Invoked("fetch")

\* the identifier of the notification the function name is invoked for
SlotId(name) ==
    CASE name \in {"request.payload", "request.meta"} -> ReqId
      [] name \in {"success.payload", "success.meta"} -> SuccId
      [] name \in {"failure.payload", "failure.meta"} -> FailId
      [] name = "res.json" -> IF res.k # "response" THEN Undefined
                              ELSE IF res.ok THEN SuccId ELSE FailId
\* the functions invoked for the same notification as name
SlotOf(name) ==
    {n \in ResolverFunctions \cup {"res.json"} : SlotId(n) = SlotId(name)}

\* C16: when a payload or meta resolver, or the decoder behind the default
\* payload, throws while a notification is constructed, the invocation does
\* not reject, and exactly one notification of the type under construction
\* is forwarded with error = true and an Internal-Error payload that wraps
\* the message of a failure of that construction.
C16_ResolverFailure ==
    \A name \in ResolverFunctions \cup {"res.json"} :
        Threw(name) =>
            /\ pc # "rejected"
            /\ Cardinality(
                 {j \in DOMAIN forwarded :
                     /\ forwarded[j].type = SlotId(name)
                     /\ forwarded[j].error = Bool(TRUE)
                     /\ forwarded[j].payload.k = "InternalError"
                     /\ \E n \in SlotOf(name) : \E i \in CallsOf(n) :
                           /\ calls[i].out.o = "throw"
                           /\ forwarded[j].payload.message =
                                 MessageOf(calls[i].out.v)}) = 1

\* the default payload resolver of the success (2) and the failure (3) slot
DefaultResolver(i) ==
    IF i = 2 THEN Fn("defaultSuccessPayload") ELSE Fn("defaultFailurePayload")

\* C17: normalizeTypeDescriptors wraps a bare identifier as a descriptor of
\* that type with nothing else set, keeps the type, payload and meta a
\* descriptor sets, gives the success and the failure descriptor the
\* default payload exactly when the slot sets no payload, never gives the
\* request descriptor a default, maps a normalized triple to itself, and
\* leaves the received action as it was.
C17_Normalize ==
    pc = "bailout" =>
        LET t == received.CALL_API.types.items
            n == <<requestType, successType, failureType>>
            Own(i, p) == IF IsIdentifier(t[i]) THEN Absent ELSE t[i][p]
        IN /\ \A i \in 1..3 :
                /\ n[i].k = "object"
                /\ n[i].type = (IF IsIdentifier(t[i]) THEN t[i] ELSE t[i].type)
                /\ n[i].meta = Own(i, "meta")
                /\ Own(i, "payload") # Absent => n[i].payload = Own(i, "payload")
           /\ \A i \in 2..3 :
                Own(i, "payload") = Absent <=> n[i].payload = DefaultResolver(i)
           /\ n[1].payload = Own(1, "payload")
           /\ normalizeTypeDescriptors(n) = n
           /\ action = received
C17_Witness ==
    /\ pc = "bailout"
    /\ IsIdentifier(received.CALL_API.types.items[1])
    /\ received.CALL_API.types.items[2].k = "object"
    /\ successType.payload = Obj("successPayload")
    /\ failureType.payload = Obj("failurePayload")

\* the Content-Type header of the response is present and contains "json"
NamesJson ==
    /\ res.contentType # Null
    /\ \E i \in 1..Len(res.contentType.s) : \E j \in i..Len(res.contentType.s) :
          SubSeq(res.contentType.s, i, j) = <<"j", "s", "o", "n">>
\* the response's status is 204 or 205, or its Content-Type does not name JSON
EmptyBody == res.status \in {204, 205} \/ ~NamesJson

\* C18: when the default payload resolver runs getJSON on the response, a
\* status of 204 or 205 gives the empty value without invoking the decoder
\* whatever the Content-Type is, an absent Content-Type or one that does
\* not contain "json" gives the empty value without invoking the decoder,
\* and otherwise the decoder is invoked exactly once and what it returns is
\* the result.
C18_GetJSON ==
    LET slot == IF res.ok THEN 2 ELSE 3
        meta == IF res.ok THEN "success.meta" ELSE "failure.meta"
        body == IF res.ok THEN forwarded[2].payload
                ELSE forwarded[2].payload.response
    IN (Finished /\ Responded /\ DefaultPayload(slot)) =>
          /\ Cardinality(CallsOf("res.json")) = (IF EmptyBody THEN 0 ELSE 1)
          /\ (pc = "done" /\ NoneThrew({meta, "res.json"})) =>
                /\ Len(forwarded) = 2
                /\ body = IF EmptyBody THEN Undefined
                          ELSE calls[CHOOSE i \in CallsOf("res.json") : TRUE].out.v
C18_Witness ==
    /\ pc = "done" /\ Responded
    /\ res.status = 204 /\ NamesJson
    /\ DefaultPayload(2)
    /\ ~Invoked("res.json")
    /\ Len(forwarded) = 2
    /\ forwarded[2].payload = Undefined

\* what the invocation of the function name threw or returned
OutcomeOf(name) == calls[CHOOSE i \in CallsOf(name) : TRUE].out
\* the value awaited for property x of a descriptor when nothing throws
ResolvedValue(x) ==
    IF IsFunction(x) THEN OutcomeOf(x.name).v
    ELSE IF x = Absent THEN Undefined ELSE x

\* C19: actionWith, seen on the request descriptor of a request that reached
\* the request stage: a payload function is invoked before a meta function,
\* and the meta function is invoked even when the payload function threw; a
\* throwing payload function gives an Internal-Error payload with the
\* thrown message and error = true; a throwing meta function removes meta,
\* sets error = true and overwrites the payload with an Internal Error of
\* meta's message; when neither throws the notification carries the
\* resolved payload and meta and the error flag of the descriptor.
C19_ActionWith ==
    LET d == normalizeTypeDescriptors(received.CALL_API.types.items)[1]
        n == forwarded[1]
    IN (PastRequest /\ pc \in {"fetch", "rejected"} /\ ~Invoked("fetch")) =>
          /\ IsFunction(d.payload) => Invoked("request.payload")
          /\ IsFunction(d.meta) => Invoked("request.meta")
          /\ \A i \in CallsOf("request.payload") :
                \A j \in CallsOf("request.meta") : i < j
          /\ Len(forwarded) = 1
          /\ n.type = d.type
          /\ (Threw("request.payload") /\ ~Threw("request.meta")) =>
                /\ n.payload =
                      InternalError(MessageOf(OutcomeOf("request.payload").v))
                /\ n.error = Bool(TRUE)
                /\ n.meta = ResolvedValue(d.meta)
          /\ Threw("request.meta") =>
                /\ n.meta = Absent
                /\ n.error = Bool(TRUE)
                /\ n.payload =
                      InternalError(MessageOf(OutcomeOf("request.meta").v))
          /\ (~Threw("request.payload") /\ ~Threw("request.meta")) =>
                /\ n.payload = ResolvedValue(d.payload)
                /\ n.meta = ResolvedValue(d.meta)
                /\ n.error = d.error

\* C20: when the payload or meta function of the request descriptor throws
\* while the request-sent notification is constructed, that notification is
\* forwarded first with error = true and an Internal-Error payload, the
\* transport is invoked exactly once afterwards, and when the invocation
\* has settled a second notification (success, failure or transport error)
\* has followed.
C20_RequestResolverFailure ==
    LET threwFirst ==
            \E name \in {"request.payload", "request.meta"} :
                \E i \in CallsOf(name) :
                    /\ calls[i].out.o = "throw"
                    /\ \A j \in CallsOf("fetch") : i < j
    IN (PastRequest /\ threwFirst) =>
          /\ Len(forwarded) >= 1
          /\ forwarded[1].type = ReqId
          /\ forwarded[1].error = Bool(TRUE)
          /\ forwarded[1].payload.k = "InternalError"
          /\ pc # "fetch" => Cardinality(CallsOf("fetch")) = 1
          /\ Finished =>
                /\ pc = "done"
                /\ Len(forwarded) = 2
                /\ forwarded[2].type \in {ReqId, SuccId, FailId}

====
